---- MODULE Spec2Model ----
(***************************************************************************)
(* Model of the generation / validation / correction pipeline and of its   *)
(* sinks (TeamEnable/poc_llm_query_to_data).                               *)
(*                                                                         *)
(*   Spec      the retry orchestrator: main.run_once and lib.run_once      *)
(*   SpecCsv   a CsvSink driven through open / write / close               *)
(*   SpecSql   a SqliteSink driven through open / write / _flush / close   *)
(*   SpecEmit  emit.emit and lib.emit on either sink                       *)
(*   SpecValidate  validator_csv.validate on tables drawn in Init          *)
(*   SpecProject   lib._project_dataframe and lib._projection_report       *)
(*   SpecConstruct SqliteSink.__init__ on configurations drawn in Init     *)
(*   SpecCycle     complete open / write / close cycles on either sink     *)
(*   SpecPersist   the sink lib.run_once builds from the caller's options  *)
(*                                                                         *)
(* Cell values of generated tables are naturals: the rank of the cell's    *)
(* text in ordinal string order (validate only compares and sorts them).   *)
(* Values written to sinks are strings; NULL stands for Python's None.     *)
(***************************************************************************)
EXTENDS Integers, Sequences, FiniteSets, TLC

VARIABLES
    impl,        \* which run_once is running: "main" (main.py) or "lib" (lib.py)
    sort_by,     \* contract: the sort_by argument of run_once (NoneVal if unset)
    row_count,   \* contract: the row_count argument of run_once: <<n>>, <<>> if None
    messages,    \* the conversation handed to call_llm
    attempt,     \* loop variable of run_once: attempts completed so far
    outcome,     \* "running", or how run_once ended
    genCalls,    \* number of call_llm invocations made by the run
    validations, \* number of times validate returned a violation list
    replies,     \* the replies call_llm has returned, in call order
    persisted,   \* <<reply>> whose table was handed to emit, <<>> if none
    emitted,     \* the last call on the sink: the sink methods it invoked, its result
    sink,        \* the sink object together with its destination (file / database)
    called       \* the last function called on its own: its arguments and result

vars == <<impl, sort_by, row_count, messages, attempt, outcome, genCalls,
          validations, replies, persisted, emitted, sink, called>>

NoneVal == "None"
NULL == "NULL"
NoCall == [fn |-> "none"]

\* ------------------------------------------------------------------ bounds
MaxRecs == 2
MaxLines == 4
MaxRows == 2
MaxHandles == 2
MaxBatch == 2
MaxCols == 2
MaxFields == 3
MaxWritten == 3
MaxCycles == 2

\* --------------------------------------------------------------- constants
RETRY_LIMIT == 2

\* ------------------------------------------------------------------ helpers
Min(a, b) == IF a < b THEN a ELSE b

Range(s) == {s[i] : i \in 1..Len(s)}

\* all sequences over S of length 0..n
SeqsUpTo(S, n) == UNION {[1..k -> S] : k \in 0..n}

\* dict.get(key, default) on a dict modelled as a function
Get(d, k, default) == IF k \in DOMAIN d THEN d[k] ELSE default

\* ------------------------------------------------- validator_csv.validate
HEADERS == <<"country", "capital">>

Err(kind, line) == [kind |-> kind, line |-> line]

\* list.index: position (0-based) of the first occurrence, or -1 for ValueError
IndexOf(s, x) ==
    IF \E i \in 1..Len(s) : s[i] = x
    THEN (CHOOSE i \in 1..Len(s) : s[i] = x /\ \A j \in 1..(i-1) : s[j] # x) - 1
    ELSE -1

\* sorted(col): insertion sort, stable, ascending
RECURSIVE Insert(_, _)
Insert(x, s) ==
    IF s = <<>> THEN <<x>>
    ELSE IF x < Head(s) THEN <<x>> \o s
    ELSE <<Head(s)>> \o Insert(x, Tail(s))

RECURSIVE sorted(_)
sorted(col) ==
    IF col = <<>> THEN <<>>
    ELSE Insert(col[Len(col)], sorted(SubSeq(col, 1, Len(col) - 1)))

\* shape violations, one per offending row, rows numbered from line 2
RECURSIVE ShapeErrs(_, _, _)
ShapeErrs(rows, expected_cols, line) ==
    IF rows = <<>> THEN <<>>
    ELSE (IF Len(Head(rows)) # expected_cols THEN <<Err("shape", line)>> ELSE <<>>)
         \o ShapeErrs(Tail(rows), expected_cols, line + 1)

RECURSIVE ShapeValid(_, _)
ShapeValid(rows, expected_cols) ==
    IF rows = <<>> THEN <<>>
    ELSE (IF Len(Head(rows)) = expected_cols THEN <<Head(rows)>> ELSE <<>>)
         \o ShapeValid(Tail(rows), expected_cols)

\* validate on a table that has a header line: the four checks in order
validate_checks(data, headers, sortBy, rowCount) ==
    LET header == data[1]
        rows == Tail(data)
        e1 == IF header # headers THEN <<Err("header", 0)>> ELSE <<>>
        \* len(rows) != row_count: an int never equals None
        e2 == IF rowCount = <<>> \/ Len(rows) # rowCount[1]
              THEN <<Err("row_count", 0)>> ELSE <<>>
        expected_cols == Len(header)
        e3 == ShapeErrs(rows, expected_cols, 2)
        sort_by_index == IndexOf(headers, sortBy)
        valid == ShapeValid(rows, expected_cols)
    IN  IF sort_by_index < 0
        THEN [raised |-> "ValueError", errs |-> <<>>]
        ELSE IF valid # <<>> /\ sort_by_index >= expected_cols
        THEN [raised |-> "IndexError", errs |-> <<>>]
        ELSE
        LET sort_by_col == [i \in 1..Len(valid) |-> valid[i][sort_by_index + 1]]
            e4 == IF sort_by_col # sorted(sort_by_col) THEN <<Err("order", 0)>> ELSE <<>>
        IN  [raised |-> "none", errs |-> e1 \o e2 \o e3 \o e4]

\* variant: no early return for an empty table, header = data[0] raises
validate_noEmptyCheck(data, headers, sortBy, rowCount) ==
    IF data = <<>> THEN [raised |-> "IndexError", errs |-> <<>>]
    ELSE validate_checks(data, headers, sortBy, rowCount)

\* validate(data, headers, sort_by, row_count): the violation list, or the
\* exception that escapes it
validate(data, headers, sortBy, rowCount) ==
    IF data = <<>> THEN [raised |-> "none", errs |-> <<Err("empty", 0)>>]
    ELSE validate_checks(data, headers, sortBy, rowCount)

\* parse_and_validate(text, headers, sort_by, row_count) -> (errors, data).
\* A reply is represented by the table csv.reader parses out of it.
parse_and_validate(reply, headers, sortBy, rowCount) ==
    [res |-> validate(reply, headers, sortBy, rowCount), data |-> reply]

\* ------------------------------------------------------------ sinks.CsvSink
HeaderLine == [hdr |-> TRUE, cells |-> <<>>]
RowLine(cells) == [hdr |-> FALSE, cells |-> cells]

\* CsvSink(path, headers, append=False): the sink object and the file at path
\* handles counts the files the sink has opened and not closed itself: a
\* file whose reference a later open() overwrote is left to the garbage
\* collector
CsvSink_init(headers, append, fileExists, fileLines) ==
    [kind |-> "csv", headers |-> headers, append |-> append, fh |-> "None", writer |-> FALSE,
     fileExists |-> fileExists, fileLines |-> fileLines, handles |-> 0,
     exc |-> "none"]

CsvOpenFaults == {"none", "open", "writeheader"}

\* variant: the header is written on every open, whatever file_existed says
CsvSink_open_alwaysHeader(w, flt) ==
    IF flt = "open" THEN [w EXCEPT !.exc = "OSError"]
    ELSE
    LET opened == [w EXCEPT !.fh = "open", !.writer = TRUE,
                            !.handles = @ + 1,
                            !.fileExists = TRUE,
                            !.fileLines = IF w.append THEN @ ELSE <<>>,
                            !.exc = "none"]
    IN  IF flt = "writeheader"
        THEN [opened EXCEPT !.exc = "OSError"]
        ELSE [opened EXCEPT !.fileLines = Append(@, HeaderLine)]

\* variant: the file is opened in mode "a" whatever append says
CsvSink_open_keepsLines(w, flt) ==
    IF flt = "open" THEN [w EXCEPT !.exc = "OSError"]
    ELSE
    LET file_existed == w.fileExists
        opened == [w EXCEPT !.fh = "open", !.writer = TRUE,
                            !.handles = @ + 1,
                            !.fileExists = TRUE,
                            !.exc = "none"]
    IN  IF ~w.append \/ ~file_existed
        THEN IF flt = "writeheader"
             THEN [opened EXCEPT !.exc = "OSError"]
             ELSE [opened EXCEPT !.fileLines = Append(@, HeaderLine)]
        ELSE opened

\* CsvSink.open(); flt names the call that raises OSError, if any
CsvSink_open(w, flt) ==
    IF flt = "open" THEN [w EXCEPT !.exc = "OSError"]
    ELSE
    LET file_existed == w.fileExists
        opened == [w EXCEPT !.fh = "open", !.writer = TRUE,
                            !.handles = @ + 1,
                            !.fileExists = TRUE,
                            !.fileLines = IF w.append THEN @ ELSE <<>>,
                            !.exc = "none"]
    IN  IF ~w.append \/ ~file_existed
        THEN IF flt = "writeheader"
             THEN [opened EXCEPT !.exc = "OSError"]
             ELSE [opened EXCEPT !.fileLines = Append(@, HeaderLine)]
        ELSE opened

\* variant: r.get(h) without a default, a missing key gives None
CsvSafe_noDefault(r, headers) == [i \in 1..Len(headers) |-> Get(r, headers[i], NULL)]

\* safe = {h: r.get(h, "") for h in self.headers}, as the cells of one line
CsvSafe(r, headers) == [i \in 1..Len(headers) |-> Get(r, headers[i], "")]

\* CsvSink.write(rows); failAt = k > 0: writerow of the k-th row raises OSError.
\* Writing to a file object that is already closed raises ValueError.
CsvSink_write(w, rows, failAt) ==
    IF ~w.writer THEN [w EXCEPT !.exc = "AssertionError: CsvSink not opened"]
    ELSE IF w.fh = "closed"
    THEN [w EXCEPT !.exc = IF rows = <<>> THEN "none" ELSE "ValueError"]
    ELSE
    LET n == IF failAt > 0 /\ failAt <= Len(rows) THEN failAt - 1 ELSE Len(rows)
        out == [i \in 1..n |-> RowLine(CsvSafe(rows[i], w.headers))]
    IN  [w EXCEPT !.fileLines = @ \o out,
                  !.exc = IF n < Len(rows) THEN "OSError" ELSE "none"]

\* CsvSink.close(); flt: self._fh.close() raises OSError (the descriptor is
\* released all the same, the attributes are not reset)
CsvSink_close(w, flt) ==
    IF w.fh = "None" THEN [w EXCEPT !.exc = "none"]
    ELSE IF w.fh = "open" /\ flt
    THEN [w EXCEPT !.fh = "closed", !.handles = @ - 1, !.exc = "OSError"]
    ELSE [w EXCEPT !.fh = "None", !.writer = FALSE,
                   !.handles = IF w.fh = "open" THEN @ - 1 ELSE @,
                   !.exc = "none"]

\* ---------------------------------------------------------- sinks.SqliteSink
SqlColumns == <<"id", "a">>
SqlTable == "data"

\* names that contain the double-quote character
QuotedNames == {"da\"ta", "a\"b"}

\* _qident(name) raises ValueError: '"' in name
_qident_raises(name) == name \in QuotedNames

\* upsert_update: "all", "none" or a list of column names
Policy(mode, cols) == [mode |-> mode, cols |-> cols]

NoSql == [kind |-> "unset", update_cols |-> <<>>]

\* [c for c in xs if c in ys], order of xs
RECURSIVE FilterIn(_, _)
FilterIn(xs, ys) ==
    IF xs = <<>> THEN <<>>
    ELSE (IF Head(xs) \in ys THEN <<Head(xs)>> ELSE <<>>) \o FilterIn(Tail(xs), ys)

\* the attributes __init__ assigns, with the database at db_path: dbRows is
\* the committed content of the table, txRows the content as the sink's
\* connection sees it (its open transaction included)
SqliteSink_attrs(table, columns, upsert_keys, upsert_update, batch_size, replace_table, if_not_exists) ==
    [kind |-> "sqlite", table |-> table, columns |-> columns,
     upsert_keys |-> upsert_keys,
     upsert_update |-> upsert_update, batch_size |-> batch_size,
     replace_table |-> replace_table, if_not_exists |-> if_not_exists,
     conn |-> "None", pending |-> <<>>, insert_sql |-> NoSql,
     fileExists |-> FALSE, fileLines |-> <<>>,
     tableExists |-> FALSE, indexExists |-> FALSE, dbRows |-> <<>>, txRows |-> <<>>,
     handles |-> 0, exc |-> "none"]

\* a constructor that leaves the upsert keys unchecked
SqliteSink_init_noKeyCheck(table, columns, upsert_keys, upsert_update, batch_size, replace_table, if_not_exists) ==
    SqliteSink_attrs(table, columns, upsert_keys, upsert_update, batch_size,
                     replace_table, if_not_exists)

\* SqliteSink(db_path, table, columns=..., ...): the sink object, or no object
\* (kind "none") and ValueError when an upsert key is not a column
SqliteSink_init(table, columns, upsert_keys, upsert_update, batch_size, replace_table, if_not_exists) ==
    LET w == SqliteSink_attrs(table, columns, upsert_keys, upsert_update,
                              batch_size, replace_table, if_not_exists)
        missing == FilterIn(upsert_keys, Range(upsert_keys) \ Range(columns))
    IN  IF missing # <<>>
        THEN [w EXCEPT !.kind = "none", !.exc = "ValueError"]
        ELSE w

ColIndex(columns, c) == CHOOSE i \in 1..Len(columns) : columns[i] = c

\* a UNIQUE index over keys treats NULLs as distinct from one another
Conflicts(p, e, keys, columns) ==
    \A k \in Range(keys) :
        /\ p[ColIndex(columns, k)] # NULL
        /\ p[ColIndex(columns, k)] = e[ColIndex(columns, k)]

HasDuplicates(tbl, keys, columns) ==
    \E i, j \in 1..Len(tbl) : i < j /\ Conflicts(tbl[i], tbl[j], keys, columns)

SqlOpenFaults == {"none", "connect", "create", "index"}

\* the statement open() builds: plain INSERT, or INSERT .. ON CONFLICT(keys)
\* DO UPDATE SET update_cols / DO NOTHING
BuildInsertSql(w) ==
    IF w.upsert_keys = <<>> THEN [kind |-> "plain", update_cols |-> <<>>]
    ELSE
    LET non_keys == FilterIn(w.columns, Range(w.columns) \ Range(w.upsert_keys))
        update_cols == IF w.upsert_update.mode = "list"
                       THEN FilterIn(w.upsert_update.cols, Range(non_keys))
                       ELSE IF w.upsert_update.mode = "all" THEN non_keys
                       ELSE <<>>
    IN  IF update_cols # <<>>
        THEN [kind |-> "update", update_cols |-> update_cols]
        ELSE [kind |-> "nothing", update_cols |-> <<>>]

\* variant: replace mode drops nothing
SqliteSink_open_noDrop(w, flt) ==
    IF flt = "connect" THEN [w EXCEPT !.exc = "OperationalError"]
    ELSE
    LET c == [w EXCEPT !.conn = "open", !.handles = @ + 1, !.fileExists = TRUE,
                       !.txRows = w.dbRows, !.exc = "none"]
        ine == w.if_not_exists \/ w.replace_table
    IN  IF _qident_raises(w.table) \/ \E k \in Range(w.columns) : _qident_raises(k)
        THEN [c EXCEPT !.exc = "ValueError"]
        ELSE IF flt = "create" \/ (c.tableExists /\ ~ine)
        THEN [c EXCEPT !.exc = "OperationalError"]
        ELSE
        LET created == [c EXCEPT !.tableExists = TRUE]
        IN  IF w.upsert_keys # <<>> /\ flt = "index"
            THEN [created EXCEPT !.exc = "OperationalError"]
            ELSE IF /\ w.upsert_keys # <<>> /\ ~created.indexExists
                    /\ HasDuplicates(created.dbRows, w.upsert_keys, w.columns)
            THEN [created EXCEPT !.exc = "IntegrityError"]
            ELSE [created EXCEPT
                    !.indexExists = (w.upsert_keys # <<>>) \/ @,
                    !.insert_sql = BuildInsertSql(w)]

\* SqliteSink.open(); flt names the statement that fails for an outside
\* reason. _qident raises while a statement is being formatted: for the table
\* name in DROP TABLE (replace mode) or else in CREATE TABLE, for a column
\* name in the column list of CREATE TABLE, after the DROP has run.
SqliteSink_open(w, flt) ==
    IF flt = "connect" THEN [w EXCEPT !.exc = "OperationalError"]
    ELSE
    LET c == [w EXCEPT !.conn = "open", !.handles = @ + 1, !.fileExists = TRUE,
                       !.txRows = w.dbRows, !.exc = "none"]
        dropped == IF w.replace_table
                   THEN [c EXCEPT !.tableExists = FALSE, !.indexExists = FALSE,
                                  !.dbRows = <<>>, !.txRows = <<>>]
                   ELSE c
        ine == w.if_not_exists /\ ~w.replace_table
    IN  IF w.replace_table /\ _qident_raises(w.table)
        THEN [c EXCEPT !.exc = "ValueError"]
        ELSE IF _qident_raises(w.table) \/ \E k \in Range(w.columns) : _qident_raises(k)
        THEN [dropped EXCEPT !.exc = "ValueError"]
        ELSE IF flt = "create" \/ (dropped.tableExists /\ ~ine)
        THEN [dropped EXCEPT !.exc = "OperationalError"]
        ELSE
        LET created == [dropped EXCEPT !.tableExists = TRUE]
        IN  IF w.upsert_keys # <<>> /\ flt = "index"
            THEN [created EXCEPT !.exc = "OperationalError"]
            ELSE IF /\ w.upsert_keys # <<>> /\ ~created.indexExists
                    /\ HasDuplicates(created.dbRows, w.upsert_keys, w.columns)
            THEN [created EXCEPT !.exc = "IntegrityError"]
            ELSE [created EXCEPT
                    !.indexExists = (w.upsert_keys # <<>>) \/ @,
                    !.insert_sql = BuildInsertSql(w)]

\* variant: ON CONFLICT .. DO UPDATE behaves as DO NOTHING
ApplyRow_keepsFirst(tbl, p, w) ==
    IF w.insert_sql.kind = "plain" THEN Append(tbl, p)
    ELSE
    LET hits == {i \in 1..Len(tbl) : Conflicts(p, tbl[i], w.upsert_keys, w.columns)}
    IN  IF hits = {} THEN Append(tbl, p) ELSE tbl

\* variant: a conflict overwrites every non-key column, whatever the
\* statement says
ApplyRow_overwritesAll(tbl, p, w) ==
    IF w.insert_sql.kind = "plain" THEN Append(tbl, p)
    ELSE
    LET hits == {i \in 1..Len(tbl) : Conflicts(p, tbl[i], w.upsert_keys, w.columns)}
    IN  IF hits = {} THEN Append(tbl, p)
        ELSE LET i == CHOOSE h \in hits : TRUE
             IN  [tbl EXCEPT ![i] =
                    [c \in 1..Len(w.columns) |->
                        IF w.columns[c] \in Range(w.upsert_keys)
                        THEN tbl[i][c] ELSE p[c]]]

\* one execution of the insert statement with the bound parameters p
ApplyRow(tbl, p, w) ==
    IF w.insert_sql.kind = "plain" THEN Append(tbl, p)
    ELSE
    LET hits == {i \in 1..Len(tbl) : Conflicts(p, tbl[i], w.upsert_keys, w.columns)}
    IN  IF hits = {} THEN Append(tbl, p)
        ELSE IF w.insert_sql.kind = "nothing" THEN tbl
        ELSE LET i == CHOOSE h \in hits : TRUE
             IN  [tbl EXCEPT ![i] =
                    [c \in 1..Len(w.columns) |->
                        IF w.columns[c] \in Range(w.insert_sql.update_cols)
                        THEN p[c] ELSE tbl[i][c]]]

RECURSIVE executemany(_, _, _)
executemany(tbl, params, w) ==
    IF params = <<>> THEN tbl
    ELSE executemany(ApplyRow(tbl, Head(params), w), Tail(params), w)

FlushFaults == {"none", "executemany", "commit"}

\* variant: the buffer is not cleared after the commit
SqliteSink_flush_keepsPending(w, flt) ==
    IF w.pending = <<>> THEN [w EXCEPT !.exc = "none"]
    ELSE IF w.conn = "None" THEN [w EXCEPT !.exc = "AssertionError"]
    ELSE IF w.insert_sql.kind = "unset" THEN [w EXCEPT !.exc = "AttributeError"]
    ELSE IF flt = "executemany"
    THEN [w EXCEPT !.txRows = executemany(@, SubSeq(w.pending, 1, Len(w.pending) - 1), w),
                   !.exc = "OperationalError"]
    ELSE
    LET tx == executemany(w.txRows, w.pending, w)
    IN  IF flt = "commit"
        THEN [w EXCEPT !.txRows = tx, !.exc = "OperationalError"]
        ELSE [w EXCEPT !.txRows = tx, !.dbRows = tx, !.exc = "none"]

\* SqliteSink._flush(); flt: executemany fails on its last row, or commit
\* fails. A failed executemany leaves the rows it did insert in the open
\* transaction; pending is cleared only after the commit.
SqliteSink_flush(w, flt) ==
    IF w.pending = <<>> THEN [w EXCEPT !.exc = "none"]
    ELSE IF w.conn = "None" THEN [w EXCEPT !.exc = "AssertionError"]
    ELSE IF w.insert_sql.kind = "unset" THEN [w EXCEPT !.exc = "AttributeError"]
    ELSE IF flt = "executemany"
    THEN [w EXCEPT !.txRows = executemany(@, SubSeq(w.pending, 1, Len(w.pending) - 1), w),
                   !.exc = "OperationalError"]
    ELSE
    LET tx == executemany(w.txRows, w.pending, w)
    IN  IF flt = "commit"
        THEN [w EXCEPT !.txRows = tx, !.exc = "OperationalError"]
        ELSE [w EXCEPT !.txRows = tx, !.dbRows = tx, !.pending = <<>>,
                       !.exc = "none"]

\* params = [r.get(col, None) for col in self.columns]
SqlParams(r, columns) == [i \in 1..Len(columns) |-> Get(r, columns[i], NULL)]

\* the loop of SqliteSink.write; flt.at = k > 0: the k-th flush of this call
\* fails the way flt.how says
RECURSIVE WriteLoop(_, _, _, _)
\* after self._flush() in the loop: an exception leaves write
AfterFlush(w2, rest, at, how) ==
    IF w2.exc # "none" THEN w2 ELSE WriteLoop(w2, rest, at - 1, how)

\* after self._pending.append(params): flush when the batch is full
AfterAppend(w1, rest, at, how) ==
    IF Len(w1.pending) >= w1.batch_size
    THEN AfterFlush(SqliteSink_flush(w1, IF at = 1 THEN how ELSE "none"), rest, at, how)
    ELSE WriteLoop(w1, rest, at, how)

WriteLoop(w, rows, at, how) ==
    IF rows = <<>> THEN [w EXCEPT !.exc = "none"]
    ELSE AfterAppend([w EXCEPT !.pending = Append(@, SqlParams(Head(rows), w.columns))],
                     Tail(rows), at, how)

SqliteSink_write(w, rows, flt) ==
    IF w.conn = "None" THEN [w EXCEPT !.exc = "AssertionError: SqliteSink not opened"]
    ELSE WriteLoop(w, rows, flt.at, flt.how)

\* variant without try/finally: self._flush(); self._conn.close()
SqliteSink_close_noFinally(w, flt) ==
    LET w1 == SqliteSink_flush(w, flt)
    IN  IF w1.exc = "none" /\ w1.conn = "open"
        THEN [w1 EXCEPT !.conn = "None", !.handles = @ - 1, !.txRows = w1.dbRows]
        ELSE w1

\* SqliteSink.close(): try: self._flush() finally: close the connection (which
\* rolls back what was not committed) and forget it
SqliteSink_close(w, flt) ==
    LET w1 == SqliteSink_flush(w, flt)
    IN  IF w1.conn = "open"
        THEN [w1 EXCEPT !.conn = "None", !.handles = @ - 1, !.txRows = w1.dbRows]
        ELSE w1

\* ------------------------------------------------------- sink dispatch, emit
\* The outcomes of the I/O calls one emit makes: which call of open() raises,
\* which row of write() raises (0: none), whether close() raises.
Sink_open(w, f) ==
    IF w.kind = "csv" THEN CsvSink_open(w, f.open) ELSE SqliteSink_open(w, f.open)
Sink_write(w, rows, f) ==
    IF w.kind = "csv" THEN CsvSink_write(w, rows, f.write)
    ELSE SqliteSink_write(w, rows, f.write)
Sink_close(w, f) ==
    IF w.kind = "csv" THEN CsvSink_close(w, f.close) ELSE SqliteSink_close(w, f.close)

\* record of the last call made on the sink: who made it, the sink methods it
\* invoked in order, the exception that left it, the status it returned, the
\* number of records it was given and the destination as it was before it
Before(w) ==
    IF w.kind = "csv"
    THEN [exists |-> w.fileExists, n |-> Len(w.fileLines), open |-> w.fh = "open"]
    ELSE [exists |-> w.tableExists, n |-> Len(w.dbRows), open |-> w.conn = "open"]

Call(via, calls, raised, status, nrecs, w0) ==
    [via |-> via, calls |-> calls, raised |-> raised, status |-> status,
     nrecs |-> nrecs, before |-> Before(w0)]

NoEmit ==
    [via |-> "none", calls |-> <<>>, raised |-> "none", status |-> "none",
     nrecs |-> 0, before |-> [exists |-> FALSE, n |-> 0, open |-> FALSE]]

\* one sink method invoked by a caller, and the exception it raised
Invoked(m, w) == [m |-> m, exc |-> w.exc]
Methods(calls) == [i \in 1..Len(calls) |-> calls[i].m]

\* variant without try/finally: sink.open(); sink.write(rows); sink.close()
emit_py_noFinally(w, rows, f) ==
    LET w1 == Sink_open(w, f)
    IN  IF w1.exc # "none"
        THEN [w |-> w1, calls |-> <<Invoked("open", w1)>>, raised |-> w1.exc,
              status |-> "none"]
        ELSE
        LET w2 == Sink_write(w1, rows, f)
            w3 == Sink_close(w2, f)
        IN  IF w2.exc # "none"
            THEN [w |-> w2, calls |-> <<Invoked("open", w1), Invoked("write", w2)>>,
                  raised |-> w2.exc, status |-> "none"]
            ELSE [w |-> w3,
                  calls |-> <<Invoked("open", w1), Invoked("write", w2),
                              Invoked("close", w3)>>,
                  raised |-> w3.exc, status |-> "none"]

\* emit.emit(rows, sink): sink.open(); try: sink.write(rows) finally: sink.close()
emit_py(w, rows, f) ==
    LET w1 == Sink_open(w, f)
    IN  IF w1.exc # "none"
        THEN [w |-> w1, calls |-> <<Invoked("open", w1)>>, raised |-> w1.exc,
              status |-> "none"]
        ELSE
        LET w2 == Sink_write(w1, rows, f)
            w3 == Sink_close(w2, f)
        IN  [w |-> w3,
             calls |-> <<Invoked("open", w1), Invoked("write", w2), Invoked("close", w3)>>,
             raised |-> IF w3.exc # "none" THEN w3.exc ELSE w2.exc,
             status |-> "none"]

\* with sink: sink.write(rows) -- SinkCM.__enter__ opens, SinkCM.__exit__
\* closes and returns False, so an exception of the body is re-raised
SinkCM_with_write(w, rows, f) ==
    LET w1 == Sink_open(w, f)
    IN  IF w1.exc # "none"
        THEN [w |-> w1, calls |-> <<Invoked("open", w1)>>, raised |-> w1.exc]
        ELSE
        LET w2 == Sink_write(w1, rows, f)
            w3 == Sink_close(w2, f)
        IN  [w |-> w3,
             calls |-> <<Invoked("open", w1), Invoked("write", w2), Invoked("close", w3)>>,
             raised |-> IF w3.exc # "none" THEN w3.exc ELSE w2.exc]

\* lib.emit(rows, sink): with sink: sink.write(rows); any Exception becomes
\* the returned status "Failure: ...", otherwise "Success: ..."
emit_lib(w, rows, f) ==
    LET r == SinkCM_with_write(w, rows, f)
    IN  [w |-> r.w, calls |-> r.calls, raised |-> "none",
         status |-> IF r.raised = "none" THEN "Success" ELSE "Failure"]

\* csv_rows_to_dicts: dict(zip(header, r)) for every data row
RowDict(header, r) ==
    LET n == Min(Len(header), Len(r))
    IN  [h \in {header[i] : i \in 1..n} |->
            r[CHOOSE i \in 1..n : header[i] = h /\ \A j \in (i+1)..n : header[j] # h]]

csv_rows_to_dicts(matrix) ==
    [i \in 1..(Len(matrix) - 1) |-> RowDict(matrix[1], matrix[i + 1])]

\* ------------------------------------------------------- lib: projection
\* A DataFrame: its column labels and its rows, one cell per column.
DataFrame(columns, rows) == [columns |-> columns, rows |-> rows]

\* keys of a dict filled by `d[k] = ...` for k in s: every key once, at the
\* position of its first assignment
DictKeys(s) ==
    LET keys[i \in 0..Len(s)] ==
            IF i = 0 THEN <<>>
            ELSE IF s[i] \in Range(keys[i - 1]) THEN keys[i - 1]
                 ELSE Append(keys[i - 1], s[i])
    IN  keys[Len(s)]

\* df[f]: the cells of the column labelled f (labels of df are distinct)
Column(df, f) == [i \in 1..Len(df.rows) |-> df.rows[i][IndexOf(df.columns, f) + 1]]

\* pd.DataFrame(data, index=df.index): one column per key of data
FromColumns(keys, data, n) ==
    DataFrame(keys, [i \in 1..n |-> [j \in 1..Len(keys) |-> data[keys[j]][i]]])

\* a projection that loses the first row of the frame
_project_dataframe_skipsFirstRow(df, target_fields) ==
    LET rest == SubSeq(df.rows, 2, Len(df.rows))
        part == DataFrame(df.columns, rest)
        data == [f \in Range(target_fields) |->
                    IF f \in Range(df.columns) THEN Column(part, f)
                    ELSE [i \in 1..Len(rest) |-> NULL]]
    IN  FromColumns(DictKeys(target_fields), data, Len(rest))

\* a projection that keeps the columns outside target_fields, after the others
_project_dataframe_keepsExtras(df, target_fields) ==
    LET all  == target_fields \o df.columns
        data == [f \in Range(all) |->
                    IF f \in Range(df.columns) THEN Column(df, f)
                    ELSE [i \in 1..Len(df.rows) |-> NULL]]
    IN  FromColumns(DictKeys(all), data, Len(df.rows))

_project_dataframe(df, target_fields) ==
    LET df_cols == Range(df.columns)
        data == [f \in Range(target_fields) |->
                    IF f \in df_cols THEN Column(df, f)
                    ELSE [i \in 1..Len(df.rows) |-> NULL]]
    IN  FromColumns(DictKeys(target_fields), data, Len(df.rows))

\* [c for c in cs if keep(c)]
Filter(cs, S, member) ==
    LET out[i \in 0..Len(cs)] ==
            IF i = 0 THEN <<>>
            ELSE IF (cs[i] \in S) = member THEN Append(out[i - 1], cs[i])
                 ELSE out[i - 1]
    IN  out[Len(cs)]

_projection_report(df_before, df_after, target_fields) ==
    LET before_cols == df_before.columns
        after_cols  == df_after.columns
    IN  [target      |-> target_fields,
         kept        |-> Filter(after_cols, Range(before_cols), TRUE),
         added_empty |-> Filter(after_cols, Range(before_cols), FALSE),
         dropped     |-> Filter(before_cols, Range(after_cols), FALSE)]

\* ------------------------------------------- lib.run_once: sink selection
\* batch_size when the caller of SqliteSink gives none
DefaultBatchSize == 500

\* lines 211-219 of lib.run_once: the sink built from sink_kwargs for the
\* target fields. Of the options only sink, sqlite_db, sqlite_table and
\* sqlite_replace are read; the sink is constructed with the defaults
\* upsert_keys=None, upsert_update="all", batch_size=500, if_not_exists=True.
BuildSink(sink_kwargs, target_fields) ==
    IF sink_kwargs.sink = "sqlite"
    THEN SqliteSink_init(sink_kwargs.sqlite_table, target_fields, <<>>,
                         Policy("all", <<>>), DefaultBatchSize,
                         sink_kwargs.sqlite_replace, TRUE)
    ELSE CsvSink_init(target_fields, FALSE, FALSE, <<>>)

\* ------------------------------------------------------------- run_once
\* Replies of the generator, as parsed tables (ranks: France 1 < Germany 2).
TEmpty == <<>>
TGood == <<HEADERS, <<1, 2>>, <<2, 1>>>>
TReversed == <<HEADERS, <<2, 1>>, <<1, 2>>>>
TRagged == <<HEADERS, <<1>>, <<2, 1>>>>
TBadHeader == <<<<"capital", "country">>, <<1, 2>>, <<2, 1>>>>
TShortHeader == <<<<"country">>, <<1>>, <<2>>>>
Replies == {TEmpty, TGood, TReversed, TRagged, TBadHeader, TShortHeader}

Msg(role, content) == [role |-> role, content |-> content]

\* CORRECTION_TEMPLATE.format(errors=..., original=reply)
Correction(errs, reply) == [errors |-> errs, original |-> reply]

\* sort_by of a run: a contract header, unset, or a name that is no header
RunSortBys == Range(HEADERS) \cup {NoneVal, "continent"}

InitRun ==
    /\ called = NoCall
    /\ impl \in {"main", "lib"}
    /\ sort_by \in RunSortBys
    /\ row_count \in {<<>>, <<2>>}
    /\ messages = <<Msg("system", "system_prompt"), Msg("user", "prompt")>>
    /\ attempt = 0
    /\ outcome = "running"
    /\ genCalls = 0
    /\ validations = 0
    /\ replies = <<>>
    /\ persisted = <<>>
    /\ emitted = NoEmit
    /\ \E lines \in {<<>>, <<HeaderLine>>}, ex \in BOOLEAN :
          /\ (lines # <<>> => ex)
          /\ sink = CsvSink_init(HEADERS, FALSE, ex, lines)

Running == outcome = "running" /\ attempt < RETRY_LIMIT + 1

\* variant: a generation failure is charged to the retry budget and the loop
\* goes on
GenerationFails_retried ==
    /\ Running
    /\ genCalls' = genCalls + 1
    /\ attempt' = attempt + 1
    /\ outcome' = IF attempt + 1 = RETRY_LIMIT + 1 THEN "GenerationError"
                  ELSE "running"
    /\ UNCHANGED <<called, impl, sort_by, row_count, messages, validations,
                   replies, persisted, emitted, sink>>

\* call_llm raises RuntimeError("OpenAI API error: ..."): it leaves run_once
GenerationFails ==
    /\ Running
    /\ genCalls' = genCalls + 1
    /\ outcome' = "GenerationError"
    /\ UNCHANGED <<called, impl, sort_by, row_count, messages, attempt, validations,
                   replies, persisted, emitted, sink>>

\* lib.run_once: parse_and_validate(reply, columns, row_count) passes three
\* arguments to a function of four required parameters: TypeError
LibAttempt ==
    /\ Running /\ impl = "lib"
    /\ \E reply \in Replies :
          /\ genCalls' = genCalls + 1
          /\ replies' = Append(replies, reply)
          /\ outcome' = "TypeError"
    /\ UNCHANGED <<called, impl, sort_by, row_count, messages, attempt, validations,
                   persisted, emitted, sink>>

\* main.run_once, one iteration whose validation raises (headers.index, r[i])
MainAttemptRaises ==
    /\ Running /\ impl = "main"
    /\ \E reply \in Replies :
          LET pv == parse_and_validate(reply, HEADERS, sort_by, row_count)
          IN  /\ pv.res.raised # "none"
              /\ genCalls' = genCalls + 1
              /\ replies' = Append(replies, reply)
              /\ outcome' = pv.res.raised
    /\ UNCHANGED <<called, impl, sort_by, row_count, messages, attempt, validations,
                   persisted, emitted, sink>>

\* variant: only the correction is appended, the assistant reply is dropped
MainAttemptInvalid_dropsReply ==
    /\ Running /\ impl = "main"
    /\ \E reply \in Replies :
          LET pv == parse_and_validate(reply, HEADERS, sort_by, row_count)
          IN  /\ pv.res.raised = "none" /\ pv.res.errs # <<>>
              /\ genCalls' = genCalls + 1
              /\ replies' = Append(replies, reply)
              /\ validations' = validations + 1
              /\ messages' = Append(messages, Msg("user", Correction(pv.res.errs, reply)))
              /\ attempt' = attempt + 1
              /\ outcome' = IF attempt + 1 = RETRY_LIMIT + 1
                            THEN "Failed" ELSE "running"
    /\ UNCHANGED <<called, impl, sort_by, row_count, persisted, emitted, sink>>

\* variant: the correction carries the first violation only
MainAttemptInvalid_firstErrorOnly ==
    /\ Running /\ impl = "main"
    /\ \E reply \in Replies :
          LET pv == parse_and_validate(reply, HEADERS, sort_by, row_count)
          IN  /\ pv.res.raised = "none" /\ pv.res.errs # <<>>
              /\ genCalls' = genCalls + 1
              /\ replies' = Append(replies, reply)
              /\ validations' = validations + 1
              /\ messages' = messages \o
                     <<Msg("assistant", reply),
                       Msg("user", Correction(<<Head(pv.res.errs)>>, reply))>>
              /\ attempt' = attempt + 1
              /\ outcome' = IF attempt + 1 = RETRY_LIMIT + 1
                            THEN "Failed" ELSE "running"
    /\ UNCHANGED <<called, impl, sort_by, row_count, persisted, emitted, sink>>

\* main.run_once, one iteration with violations: append the reply and the
\* correction; after the last iteration the loop ends and RuntimeError is raised
MainAttemptInvalid ==
    /\ Running /\ impl = "main"
    /\ \E reply \in Replies :
          LET pv == parse_and_validate(reply, HEADERS, sort_by, row_count)
          IN  /\ pv.res.raised = "none" /\ pv.res.errs # <<>>
              /\ genCalls' = genCalls + 1
              /\ replies' = Append(replies, reply)
              /\ validations' = validations + 1
              /\ messages' = messages \o
                     <<Msg("assistant", reply),
                       Msg("user", Correction(pv.res.errs, reply))>>
              /\ attempt' = attempt + 1
              /\ outcome' = IF attempt + 1 = RETRY_LIMIT + 1
                            THEN "Failed" ELSE "running"
    /\ UNCHANGED <<called, impl, sort_by, row_count, persisted, emitted, sink>>

\* variant: a failure of emit is swallowed and the loop goes on to another
\* attempt
MainAttemptValid_retried ==
    /\ Running /\ impl = "main"
    /\ \E reply \in Replies, f \in [open : CsvOpenFaults, write : 0..MaxRecs, close : BOOLEAN] :
          LET pv == parse_and_validate(reply, HEADERS, sort_by, row_count)
              dict_rows == csv_rows_to_dicts(pv.data)
              s0 == CsvSink_init(HEADERS, FALSE, sink.fileExists, sink.fileLines)
              e == emit_py(s0, dict_rows, f)
          IN  /\ pv.res.raised = "none" /\ pv.res.errs = <<>>
              /\ genCalls' = genCalls + 1
              /\ replies' = Append(replies, reply)
              /\ validations' = validations + 1
              /\ persisted' = <<reply>>
              /\ emitted' = Call("emit_py", e.calls, e.raised, e.status, Len(dict_rows), s0)
              /\ sink' = e.w
              /\ attempt' = IF e.raised = "none" THEN attempt ELSE attempt + 1
              /\ outcome' = IF e.raised = "none" THEN "Success"
                            ELSE IF attempt + 1 = RETRY_LIMIT + 1 THEN "Failed"
                            ELSE "running"
    /\ UNCHANGED <<called, impl, sort_by, row_count, messages>>

\* main.run_once, one iteration without violations: emit to a new CsvSink
MainAttemptValid ==
    /\ Running /\ impl = "main"
    /\ \E reply \in Replies, f \in [open : CsvOpenFaults, write : 0..MaxRecs, close : BOOLEAN] :
          LET pv == parse_and_validate(reply, HEADERS, sort_by, row_count)
              dict_rows == csv_rows_to_dicts(pv.data)
              s0 == CsvSink_init(HEADERS, FALSE, sink.fileExists, sink.fileLines)
              e == emit_py(s0, dict_rows, f)
          IN  /\ pv.res.raised = "none" /\ pv.res.errs = <<>>
              /\ genCalls' = genCalls + 1
              /\ replies' = Append(replies, reply)
              /\ validations' = validations + 1
              /\ persisted' = <<reply>>
              /\ emitted' = Call("emit_py", e.calls, e.raised, e.status, Len(dict_rows), s0)
              /\ sink' = e.w
              /\ outcome' = IF e.raised = "none" THEN "Success"
                            ELSE "PersistenceError"
    /\ UNCHANGED <<called, impl, sort_by, row_count, messages, attempt>>

Next ==
    \/ GenerationFails
    \/ LibAttempt
    \/ MainAttemptRaises
    \/ MainAttemptInvalid
    \/ MainAttemptValid

Spec == InitRun /\ [][Next]_vars

\* ------------------------------------------------------ a CsvSink in use
\* Records handed to write: complete, lacking a declared key, with an extra key.
CsvHeaders == <<"a", "b">>
CsvRecs == {[a |-> "x", b |-> "y"], [a |-> "y"], [a |-> "x", b |-> "x", c |-> "z"]}
CsvBatches == SeqsUpTo(CsvRecs, MaxRecs)
CsvFaults == [open : CsvOpenFaults, write : 0..MaxRecs, close : BOOLEAN]

HdrCount(lines) == Cardinality({i \in 1..Len(lines) : lines[i].hdr})

RunRest == <<impl, sort_by, row_count, messages, attempt, outcome, genCalls,
             validations, replies, persisted, called>>

NoRun ==
    /\ impl = "none" /\ sort_by = NoneVal /\ row_count = <<>>
    /\ messages = <<>> /\ attempt = 0 /\ outcome = "none" /\ genCalls = 0
    /\ validations = 0 /\ replies = <<>> /\ persisted = <<>>
    /\ called = NoCall

\* destinations before the first open: absent, present but empty, or holding
\* a header line and possibly a record
CsvStart ==
    {CsvSink_init(CsvHeaders, append, ex, lines) :
        append \in BOOLEAN,
        ex \in BOOLEAN,
        lines \in {<<>>, <<HeaderLine>>, <<HeaderLine, RowLine(<<"x", "y">>)>>}}

InitCsv ==
    /\ NoRun
    /\ emitted = NoEmit
    /\ sink \in {w \in CsvStart : w.fileLines # <<>> => w.fileExists}

Room(n) == Len(sink.fileLines) + n <= MaxLines

\* CsvSink(path, headers, append=...) on the same path, the old sink closed
CsvNew ==
    /\ sink.fh # "open"
    /\ \E append \in BOOLEAN :
          sink' = CsvSink_init(CsvHeaders, append, sink.fileExists, sink.fileLines)
    /\ emitted' = Call("new", <<>>, "none", "none", 0, sink)
    /\ UNCHANGED RunRest

CsvOpen ==
    /\ sink.handles < MaxHandles
    /\ Room(1)
    /\ \E flt \in CsvOpenFaults :
          \E w1 \in {CsvSink_open(sink, flt)} :
              /\ sink' = w1
              /\ emitted' = Call("direct", <<Invoked("open", w1)>>, w1.exc, "none", 0, sink)
    /\ UNCHANGED RunRest

CsvWrite ==
    /\ \E rows \in CsvBatches, failAt \in 0..MaxRecs :
          /\ Room(Len(rows))
          /\ failAt <= Len(rows)
          /\ \E w1 \in {CsvSink_write(sink, rows, failAt)} :
              /\ sink' = w1
              /\ emitted' = Call("direct", <<Invoked("write", w1)>>, w1.exc, "none", Len(rows), sink)
    /\ UNCHANGED RunRest

CsvClose ==
    /\ \E flt \in BOOLEAN :
          \E w1 \in {CsvSink_close(sink, flt)} :
              /\ (flt => sink.fh = "open")
              /\ sink' = w1
              /\ emitted' = Call("direct", <<Invoked("close", w1)>>, w1.exc, "none", 0, sink)
    /\ UNCHANGED RunRest

NextCsv == CsvNew \/ CsvOpen \/ CsvWrite \/ CsvClose

SpecCsv == InitCsv /\ [][NextCsv]_vars

\* ---------------------------------------------------- a SqliteSink in use
\* Records handed to write; the last one lacks the column id (bound as NULL).
SqlRecs == {[id |-> "1", a |-> "x"], [id |-> "1", a |-> "y"], [a |-> "x"]}
SqlBatches == SeqsUpTo(SqlRecs, MaxRecs)

NoFlushFault == [at |-> 0, how |-> "none"]
WriteFaults == [at : 1..MaxRecs, how : FlushFaults \ {"none"}]

\* configurations: every key / policy shape with the default table mode;
\* replace mode and strict creation (if_not_exists off) on fewer shapes
SqlConfigs ==
    {SqliteSink_init(SqlTable, SqlColumns, c[1], Policy(c[2], c[3]), bs, FALSE, TRUE) :
        c \in {<<<<>>, "all", <<>>>>,
               <<<<"id">>, "all", <<>>>>, <<<<"id">>, "none", <<>>>>,
               <<<<"id">>, "list", <<"a">>>>,
               <<<<"id", "a">>, "all", <<>>>>},
        bs \in {1, MaxBatch}}
    \cup {SqliteSink_init(SqlTable, SqlColumns, k, Policy("all", <<>>), bs, TRUE, TRUE) :
            k \in {<<>>, <<"id">>}, bs \in {1, MaxBatch}}
    \cup {SqliteSink_init(SqlTable, SqlColumns, <<>>, Policy("all", <<>>), 1, FALSE, FALSE)}

InitSql ==
    /\ NoRun
    /\ emitted = NoEmit
    /\ sink \in SqlConfigs

SqlRoom(n) == Len(sink.txRows) + Len(sink.pending) + n <= MaxRows

\* the table and the buffer stay within the bound after a call
SqlFits(w) == Len(w.txRows) + Len(w.pending) <= MaxRows

\* a new SqliteSink with the same configuration on the same database
SqlNew ==
    /\ sink.conn = "None"
    /\ sink.pending # <<>> \/ sink.insert_sql # NoSql
    /\ sink' = [sink EXCEPT !.pending = <<>>, !.insert_sql = NoSql, !.exc = "none"]
    /\ emitted' = Call("new", <<>>, "none", "none", 0, sink)
    /\ UNCHANGED RunRest

SqlOpen ==
    /\ sink.handles < MaxHandles
    /\ \E flt \in SqlOpenFaults :
          \E w1 \in {SqliteSink_open(sink, flt)} :
              /\ sink' = w1
              /\ emitted' = Call("direct", <<Invoked("open", w1)>>, w1.exc, "none", 0, sink)
    /\ UNCHANGED RunRest

\* write(rows); on a sink without a connection the assert precedes the loop,
\* so one record stands for any
SqlWrite ==
    /\ \E rows \in SqlBatches, flt \in {NoFlushFault} \cup WriteFaults :
          /\ (sink.conn = "None" => Len(rows) = 1)
          /\ (flt.how # "none" =>
                /\ sink.conn = "open"
                /\ flt.at * sink.batch_size <= Len(sink.pending) + Len(rows))
          /\ \E w1 \in {SqliteSink_write(sink, rows, flt)} :
              /\ SqlFits(w1)
              /\ (flt.how # "none" => w1.exc = "OperationalError")
              /\ sink' = w1
              /\ emitted' = Call("direct", <<Invoked("write", w1)>>, w1.exc, "none", Len(rows), sink)
    /\ UNCHANGED RunRest

\* SqliteSink._flush() called on its own
SqlFlush ==
    /\ \E flt \in FlushFaults :
          /\ (flt # "none" => sink.conn = "open" /\ sink.pending # <<>>)
          /\ \E w1 \in {SqliteSink_flush(sink, flt)} :
              /\ SqlFits(w1)
              /\ (flt # "none" => w1.exc = "OperationalError")
              /\ sink' = w1
              /\ emitted' = Call("direct", <<Invoked("_flush", w1)>>, w1.exc, "none", 0, sink)
    /\ UNCHANGED RunRest

SqlClose ==
    /\ \E flt \in FlushFaults :
          /\ (flt # "none" => sink.conn = "open" /\ sink.pending # <<>>)
          /\ \E w1 \in {SqliteSink_close(sink, flt)} :
              /\ SqlFits(w1)
              /\ (flt # "none" => w1.exc = "OperationalError")
              /\ sink' = w1
              /\ emitted' = Call("direct", <<Invoked("close", w1)>>, w1.exc, "none", 0, sink)
    /\ UNCHANGED RunRest

NextSql == SqlNew \/ SqlOpen \/ SqlWrite \/ SqlFlush \/ SqlClose

SpecSql == InitSql /\ [][NextSql]_vars

\* ------------------------------------------------ emit on either sink
\* the I/O failures of one emit call on a SqliteSink: none, one, or a failing
\* flush in write followed by a failing flush in close
SqlFaults ==
    {[open |-> "none", write |-> NoFlushFault, close |-> "none"]}
    \cup {[open |-> o, write |-> NoFlushFault, close |-> "none"] :
            o \in SqlOpenFaults \ {"none"}}
    \cup {[open |-> "none", write |-> [at |-> 1, how |-> h], close |-> c] :
            h \in FlushFaults \ {"none"}, c \in {"none", "executemany"}}
    \cup {[open |-> "none", write |-> NoFlushFault, close |-> c] :
            c \in FlushFaults \ {"none"}}

InitEmit ==
    /\ NoRun
    /\ emitted = NoEmit
    /\ sink \in {w \in CsvStart : w.fileLines = <<>>}
               \cup {w \in SqlConfigs : w.upsert_update.mode = "all" /\ w.if_not_exists
                                        /\ Len(w.upsert_keys) < 2}

EmitBatches ==
    IF sink.kind = "csv" THEN SeqsUpTo({[a |-> "x", b |-> "y"]}, MaxRecs)
    ELSE SeqsUpTo({[id |-> "1", a |-> "x"], [a |-> "x"]}, MaxRecs)
EmitFaults == IF sink.kind = "csv" THEN CsvFaults ELSE SqlFaults
EmitRoom(n) == IF sink.kind = "csv" THEN Room(n + 1) ELSE SqlRoom(n)

\* emit.emit(rows, sink) on the sink as it stands
EmitPy ==
    /\ sink.handles < MaxHandles
    /\ \E rows \in EmitBatches, f \in EmitFaults :
          /\ EmitRoom(Len(rows))
          /\ \E e \in {emit_py(sink, rows, f)} :
              /\ sink' = e.w
              /\ emitted' = Call("emit_py", e.calls, e.raised, e.status, Len(rows), sink)
    /\ UNCHANGED RunRest

\* lib.emit(rows, sink) on the sink as it stands
EmitLib ==
    /\ sink.handles < MaxHandles
    /\ \E rows \in EmitBatches, f \in EmitFaults :
          /\ EmitRoom(Len(rows))
          /\ \E e \in {emit_lib(sink, rows, f)} :
              /\ sink' = e.w
              /\ emitted' = Call("emit_lib", e.calls, e.raised, e.status, Len(rows), sink)
    /\ UNCHANGED RunRest

NextEmit == EmitPy \/ EmitLib

SpecEmit == InitEmit /\ [][NextEmit]_vars

\* ------------------------------------------------ validate called on its own
\* Tables handed to validate: none at all, or a header (the contract's, the
\* contract's reordered, one shorter, one longer) above up to MaxRecs rows,
\* each one cell shorter than the contract up to one cell longer; a cell is
\* the rank of its text.
TblHeaders ==
    {HEADERS, <<"capital", "country">>, <<"country">>,
     <<"country", "capital", "continent">>}
Ranks == {1, 2}
TblRows == UNION {[1..n -> Ranks] : n \in (Len(HEADERS) - 1)..(Len(HEADERS) + 1)}
Tables ==
    {<<>>} \cup {<<h>> \o rows : h \in TblHeaders, rows \in SeqsUpTo(TblRows, MaxRecs)}
SortBys == {"country", "capital", NoneVal}
RowCounts == {<<>>} \cup {<<n>> : n \in 0..MaxRecs}

NoRes == [raised |-> "none", errs |-> <<>>]

AllButCalled == <<impl, sort_by, row_count, messages, attempt, outcome, genCalls,
                  validations, replies, persisted, emitted, sink>>

\* no run and no sink: only functions called on their own
Idle ==
    /\ impl = "none" /\ sort_by = NoneVal /\ row_count = <<>>
    /\ messages = <<>> /\ attempt = 0 /\ outcome = "none" /\ genCalls = 0
    /\ validations = 0 /\ replies = <<>> /\ persisted = <<>>
    /\ emitted = NoEmit
    /\ sink = CsvSink_init(HEADERS, FALSE, FALSE, <<>>)

InitValidate ==
    /\ Idle
    /\ \E data \in Tables, sb \in SortBys, rc \in RowCounts :
          called = [fn |-> "validate", done |-> FALSE, data |-> data,
                    headers |-> HEADERS, sort_by |-> sb, row_count |-> rc,
                    res |-> NoRes]

\* validate(data, headers, sort_by, row_count) on the arguments drawn
Validate ==
    /\ called.fn = "validate" /\ ~called.done
    /\ called' = [called EXCEPT
                     !.done = TRUE,
                     !.res = validate(called.data, called.headers,
                                      called.sort_by, called.row_count)]
    /\ UNCHANGED AllButCalled

NextValidate == Validate

SpecValidate == InitValidate /\ [][NextValidate]_vars

\* ------------------------------------------ projection called on its own
\* Field names, frames of up to MaxCols distinctly labelled columns and up to
\* MaxRecs rows, and target field lists of up to MaxFields names (repeats
\* included); a cell is a text or NULL.
FieldNames == {"country", "capital", "continent"}
Cells == {"x", NULL}
Distinct(s) == \A i, j \in 1..Len(s) : s[i] = s[j] => i = j
Labels == {c \in SeqsUpTo(FieldNames, MaxCols) : Distinct(c)}
Frames ==
    UNION {{DataFrame(c, rows) : rows \in SeqsUpTo([1..Len(c) -> Cells], MaxRecs)} :
           c \in Labels}
Targets == SeqsUpTo(FieldNames, MaxFields)
NoFrame == DataFrame(<<>>, <<>>)
NoReport == [target |-> <<>>, kept |-> <<>>, added_empty |-> <<>>, dropped |-> <<>>]

InitProject ==
    /\ Idle
    /\ \E df \in Frames, t \in Targets :
          called = [fn |-> "project", step |-> 0, df |-> df, target_fields |-> t,
                    df_proj |-> NoFrame, report |-> NoReport, again |-> NoFrame]

\* df_proj = _project_dataframe(df_raw, target_fields), then the report
Project ==
    /\ called.fn = "project" /\ called.step = 0
    /\ \E out \in {_project_dataframe(called.df, called.target_fields)} :
          called' = [called EXCEPT
                        !.step = 1,
                        !.df_proj = out,
                        !.report = _projection_report(called.df, out,
                                                      called.target_fields)]
    /\ UNCHANGED AllButCalled

\* the projected frame projected once more on the same target fields
Reproject ==
    /\ called.fn = "project" /\ called.step = 1
    /\ called' = [called EXCEPT
                     !.step = 2,
                     !.again = _project_dataframe(called.df_proj,
                                                  called.target_fields)]
    /\ UNCHANGED AllButCalled

NextProject == Project \/ Reproject

SpecProject == InitProject /\ [][NextProject]_vars

\* ------------------------------------------------ a SqliteSink constructed
\* Databases found at db_path: no file, an empty file, the table without
\* rows, the table holding a row.
Databases ==
    {d \in [fileExists : BOOLEAN, tableExists : BOOLEAN,
            dbRows : {<<>>, <<<<"1", "x">>>>}] :
        (d.tableExists => d.fileExists) /\ (d.dbRows # <<>> => d.tableExists)}

\* no sink object; the database at db_path is db
NoSink(db) ==
    [SqliteSink_attrs(SqlTable, <<>>, <<>>, Policy("all", <<>>), 0, FALSE, FALSE) EXCEPT
        !.kind = "none", !.fileExists = db.fileExists,
        !.tableExists = db.tableExists, !.dbRows = db.dbRows]

\* the database at db_path, as any connection would find it
Database(w) ==
    [fileExists |-> w.fileExists, tableExists |-> w.tableExists, dbRows |-> w.dbRows]

\* upsert keys: lists of distinct names, the name "b" is no column
SqlKeys == {k \in SeqsUpTo(Range(SqlColumns) \cup {"b"}, 2) : Distinct(k)}
SqlPolicies == {Policy("all", <<>>), Policy("none", <<>>), Policy("list", <<"a">>)}

\* table names and column lists, with and without a double quote in a name
SqlTables == {SqlTable, "da\"ta"}
SqlColumnLists == {SqlColumns, <<"id", "a\"b">>}

InitConstruct ==
    /\ impl = "none" /\ sort_by = NoneVal /\ row_count = <<>>
    /\ messages = <<>> /\ attempt = 0 /\ outcome = "none" /\ genCalls = 0
    /\ validations = 0 /\ replies = <<>> /\ persisted = <<>>
    /\ emitted = NoEmit
    /\ \E db \in Databases : sink = NoSink(db)
    /\ \E t \in SqlTables, cs \in SqlColumnLists, k \in SqlKeys, u \in SqlPolicies,
          bs \in {1, MaxBatch}, rt \in BOOLEAN, ine \in BOOLEAN :
          called = [fn |-> "SqliteSink", done |-> FALSE, table |-> t, columns |-> cs,
                    upsert_keys |-> k, upsert_update |-> u, batch_size |-> bs,
                    replace_table |-> rt, if_not_exists |-> ine,
                    db |-> Database(sink), raised |-> "none"]

AllButSinkCalled == <<impl, sort_by, row_count, messages, attempt, outcome, genCalls,
                      validations, replies, persisted, emitted>>

\* sink = SqliteSink(db_path, table, columns=..., upsert_keys=..., ...)
Construct ==
    /\ called.fn = "SqliteSink" /\ ~called.done
    /\ \E w \in {SqliteSink_init(called.table, called.columns, called.upsert_keys,
                                 called.upsert_update, called.batch_size,
                                 called.replace_table, called.if_not_exists)} :
          /\ sink' = [w EXCEPT !.fileExists = sink.fileExists,
                               !.tableExists = sink.tableExists,
                               !.dbRows = sink.dbRows]
          /\ called' = [called EXCEPT !.done = TRUE, !.raised = w.exc]
    /\ UNCHANGED AllButSinkCalled

\* sink.open() on the object constructed
ConstructedOpen ==
    /\ called.fn = "SqliteSink" /\ called.done
    /\ sink.kind = "sqlite" /\ sink.conn = "None" /\ sink.exc = "none"
    /\ \E flt \in SqlOpenFaults : sink' = SqliteSink_open(sink, flt)
    /\ UNCHANGED <<AllButSinkCalled, called>>

NextConstruct == Construct \/ ConstructedOpen

SpecConstruct == InitConstruct /\ [][NextConstruct]_vars

\* ------------------------------------------- complete cycles on a sink
\* A sink of either kind over the columns id, a, b, driven through complete
\* open / write* / close cycles without outside failures; called.written
\* is the log of the records written since the destination was last
\* emptied (truncate-mode open, replace-mode open), called.base what the
\* destination held before them; called.existed: the file was there before
\* the first open; called.emptied: some open has emptied the destination.
CycColumns == <<"id", "a", "b">>

\* records: two with the same id, one without id and b and with a key c
\* that is no column
CycRecs ==
    {[id |-> "1", a |-> "x", b |-> "x"], [id |-> "1", a |-> "y", b |-> "y"],
     [a |-> "x", c |-> "z"]}
CycBatches == SeqsUpTo(CycRecs, MaxRecs)

\* CSV destinations: absent, or present and empty
CycCsv ==
    {CsvSink_init(CycColumns, append, ex, <<>>) : append \in BOOLEAN, ex \in BOOLEAN}

\* update policies: all, none, and lists naming a non-key column, a key
\* column only, and no column at all
CycPolicies ==
    {Policy("all", <<>>), Policy("none", <<>>), Policy("list", <<"a">>),
     Policy("list", <<"id">>), Policy("list", <<>>)}

\* SQLite sinks: plain insert with every batch size up to MaxBatch + 1 and
\* either table mode; upsert on id with every policy
CycSqlConfigs ==
    {SqliteSink_init(SqlTable, CycColumns, <<>>, Policy("all", <<>>), bs, rt, TRUE) :
        bs \in 1..(MaxBatch + 1), rt \in BOOLEAN}
    \cup {SqliteSink_init(SqlTable, CycColumns, <<"id">>, u, bs, FALSE, TRUE) :
            u \in CycPolicies, bs \in {1, MaxBatch}}

\* databases: absent, or holding the table with one row
CycSql ==
    CycSqlConfigs
    \cup {[w EXCEPT !.fileExists = TRUE, !.tableExists = TRUE,
                    !.dbRows = <<<<"1", "x", "x">>>>] : w \in CycSqlConfigs}

\* no outside failure in open, write or close
NoFault(w) ==
    IF w.kind = "csv" THEN [open |-> "none", write |-> 0, close |-> FALSE]
    ELSE [open |-> "none", write |-> NoFlushFault, close |-> "none"]

\* what the destination holds: the lines of the file, the committed rows
Content(w) == IF w.kind = "csv" THEN w.fileLines ELSE w.dbRows

\* open() empties the destination: mode "w", DROP TABLE IF EXISTS
Empties(w) == IF w.kind = "csv" THEN ~w.append ELSE w.replace_table

InitCycle ==
    /\ impl = "none" /\ sort_by = NoneVal /\ row_count = <<>>
    /\ messages = <<>> /\ attempt = 0 /\ outcome = "none" /\ genCalls = 0
    /\ validations = 0 /\ replies = <<>> /\ persisted = <<>>
    /\ emitted = NoEmit
    /\ sink \in CycCsv \cup CycSql
    /\ called = [fn |-> "cycle", phase |-> "new", cycles |-> 1,
                 existed |-> sink.fileExists, emptied |-> FALSE,
                 base |-> Content(sink), written |-> <<>>]

CycleOpen ==
    /\ called.fn = "cycle" /\ called.phase = "new"
    /\ \E w1 \in {Sink_open(sink, NoFault(sink))} :
          /\ w1.exc = "none"
          /\ sink' = w1
          /\ called' = [called EXCEPT
                           !.phase = "open",
                           !.emptied = Empties(sink) \/ @,
                           !.base = IF Empties(sink) THEN <<>> ELSE @,
                           !.written = IF Empties(sink) THEN <<>> ELSE @]
    /\ UNCHANGED AllButSinkCalled

CycleWrite ==
    /\ called.fn = "cycle" /\ called.phase = "open"
    /\ \E rows \in CycBatches :
          /\ Len(called.written) + Len(rows) <= MaxWritten
          /\ \E w1 \in {Sink_write(sink, rows, NoFault(sink))} :
                /\ w1.exc = "none"
                /\ sink' = w1
                /\ called' = [called EXCEPT !.written = @ \o rows]
    /\ UNCHANGED AllButSinkCalled

CycleClose ==
    /\ called.fn = "cycle" /\ called.phase = "open"
    /\ \E w1 \in {Sink_close(sink, NoFault(sink))} :
          /\ w1.exc = "none"
          /\ sink' = w1
          /\ called' = [called EXCEPT !.phase = "closed"]
    /\ UNCHANGED AllButSinkCalled

\* a new sink object on the same destination: a CsvSink in either mode, a
\* SqliteSink of the same configuration
CycleNew ==
    /\ called.fn = "cycle" /\ called.phase = "closed"
    /\ called.cycles < MaxCycles
    /\ \/ /\ sink.kind = "csv"
          /\ \E append \in BOOLEAN :
                sink' = CsvSink_init(sink.headers, append, sink.fileExists,
                                     sink.fileLines)
       \/ /\ sink.kind = "sqlite"
          /\ sink' = [sink EXCEPT !.pending = <<>>, !.insert_sql = NoSql,
                                  !.exc = "none"]
    /\ called' = [called EXCEPT !.phase = "new", !.cycles = @ + 1]
    /\ UNCHANGED AllButSinkCalled

NextCycle == CycleOpen \/ CycleWrite \/ CycleClose \/ CycleNew

SpecCycle == InitCycle /\ [][NextCycle]_vars

\* ---------------------------------------- the sink of the Persisting step
\* sink options as app.on_generate passes them to lib.run_once
SinkKwargs ==
    [sink : {"csv", "sqlite"}, sqlite_table : {SqlTable},
     sqlite_replace : BOOLEAN, sqlite_upsert_keys : {<<>>, <<"id">>},
     sqlite_upsert_update : SqlPolicies]

InitPersist ==
    /\ impl = "none" /\ sort_by = NoneVal /\ row_count = <<>>
    /\ messages = <<>> /\ attempt = 0 /\ outcome = "none" /\ genCalls = 0
    /\ validations = 0 /\ replies = <<>> /\ persisted = <<>>
    /\ emitted = NoEmit
    /\ \E db \in Databases : sink = NoSink(db)
    /\ \E kw \in SinkKwargs :
          called = [fn |-> "BuildSink", done |-> FALSE, sink_kwargs |-> kw,
                    target_fields |-> SqlColumns]

\* sink = SqliteSink(...) / CsvSink(...) as run_once builds it; the database
\* at db_path is the one that was there
PersistBuild ==
    /\ called.fn = "BuildSink" /\ ~called.done
    /\ \E w \in {BuildSink(called.sink_kwargs, called.target_fields)} :
          sink' = IF w.kind = "sqlite"
                  THEN [w EXCEPT !.fileExists = sink.fileExists,
                                 !.tableExists = sink.tableExists,
                                 !.dbRows = sink.dbRows]
                  ELSE w
    /\ called' = [called EXCEPT !.done = TRUE]
    /\ UNCHANGED AllButSinkCalled

\* emit opens the sink built
PersistOpen ==
    /\ called.fn = "BuildSink" /\ called.done
    /\ sink.handles = 0 /\ sink.exc = "none"
    /\ sink' = Sink_open(sink, NoFault(sink))
    /\ UNCHANGED <<AllButSinkCalled, called>>

NextPersist == PersistBuild \/ PersistOpen

SpecPersist == InitPersist /\ [][NextPersist]_vars

\* ------------------------------------------------------ claims: run_once
\* what validate makes of a reply under the run's contract
Verdict(reply) == validate(reply, HEADERS, sort_by, row_count)
Violating(reply) == Verdict(reply).raised = "none" /\ Verdict(reply).errs # <<>>
Clean(reply) == Verdict(reply).raised = "none" /\ Verdict(reply).errs = <<>>
Ended == outcome \notin {"running", "GenerationError"}
SinkOpened == emitted.calls # <<>>

\* C1: a run in which every reply has at least one violation makes exactly
\* RETRY_LIMIT + 1 generation calls, opens no sink and ends Failed ("Validation
\* failed after RETRY_LIMIT + 1 attempts"); no run makes more than
\* RETRY_LIMIT + 1 generation calls.
C1_AllViolatingEndsFailed ==
    /\ genCalls <= RETRY_LIMIT + 1
    /\ (Ended /\ \A i \in 1..Len(replies) : Violating(replies[i]))
          => (genCalls = RETRY_LIMIT + 1 /\ outcome = "Failed" /\ ~SinkOpened)

\* C2: if the first k-1 replies each have a violation and the k-th has none
\* (and nothing fails while persisting), the run makes exactly k generation
\* calls, sends exactly k-1 corrections, persists the k-th reply's table and
\* ends in Success.
C2_FirstCleanReplySucceeds ==
    \A k \in 1..(RETRY_LIMIT + 1) :
        (/\ Ended
         /\ Len(replies) = k
         /\ \A i \in 1..(k - 1) : Violating(replies[i])
         /\ Clean(replies[k])
         /\ emitted.raised = "none")
        => (/\ genCalls = k
            /\ Len(messages) = 2 + 2 * (k - 1)
            /\ persisted = <<replies[k]>>
            /\ outcome = "Success")

\* C3: a failure of the generation capability ends run_once at once with the
\* generation error: the failing call appends no correction, opens no sink,
\* is not counted as a validation attempt or against the retry budget, and no
\* step follows it.
C3_GenerationErrorIsTerminal ==
    /\ [](outcome = "GenerationError"
            => (/\ ~SinkOpened /\ persisted = <<>>
                /\ Len(replies) = genCalls - 1
                /\ attempt = validations
                /\ Len(messages) = 2 + 2 * attempt))
    /\ [][(outcome' = "GenerationError" /\ outcome # "GenerationError")
            => (/\ outcome = "running"
                /\ genCalls' = genCalls + 1
                /\ UNCHANGED <<messages, attempt, validations, replies,
                               persisted, emitted, sink>>)]_vars
    /\ [][outcome # "GenerationError"]_vars

C3_Witness ==
    outcome = "GenerationError" /\ genCalls = RETRY_LIMIT + 1 /\ attempt = RETRY_LIMIT

\* C4: persistence is attempted at most once per run, only after a clean
\* validation; a successful run opened, wrote and closed the sink exactly once,
\* and when open, write or close fails the run ends in a terminal persistence
\* failure: no Success, no further generation call, no second open.
C4_PersistOnceNoRetry ==
    /\ [](SinkOpened => (persisted # <<>> /\ Clean(persisted[1]) /\ outcome # "running"))
    /\ [](outcome = "Success"
            => (Methods(emitted.calls) = <<"open", "write", "close">>
                /\ emitted.raised = "none"))
    /\ [](emitted.raised # "none" => outcome = "PersistenceError")
    /\ [](outcome = "PersistenceError" => emitted.raised # "none")
    /\ [][~SinkOpened]_vars

C4_Witness ==
    /\ outcome = "PersistenceError"
    /\ Methods(emitted.calls) = <<"open", "write", "close">>
    /\ genCalls = 2

\* C5: the conversation is append-only: it starts as [system, user]; every
\* attempt with violations appends {assistant: reply} then {user: correction};
\* earlier entries never change; the k-th call receives 2 + 2(k-1) messages.
ConversationShape ==
    /\ Len(messages) = 2 + 2 * attempt
    /\ messages[1] = Msg("system", "system_prompt")
    /\ messages[2] = Msg("user", "prompt")
    /\ \A j \in 1..attempt :
          /\ messages[2 * j + 1] = Msg("assistant", replies[j])
          /\ messages[2 * j + 2].role = "user"
          /\ messages[2 * j + 2].content.original = replies[j]

C5_ConversationAppendOnly ==
    /\ []ConversationShape
    /\ [][/\ Len(messages') \in {Len(messages), Len(messages) + 2}
           /\ SubSeq(messages', 1, Len(messages)) = messages
           /\ (Len(messages') = Len(messages) + 2 => Violating(replies'[Len(replies')]))
           /\ (genCalls' = genCalls + 1 => Len(messages) = 2 + 2 * genCalls)]_vars

C5_Witness == genCalls = RETRY_LIMIT + 1 /\ Len(messages) = 2 + 2 * (RETRY_LIMIT + 1)

\* ----------------------------------------------------------- claims: emit
Released(w) == IF w.kind = "csv" THEN w.fh # "open" ELSE w.conn = "None"

\* the caller of the last emit was told of a failure: emit.emit lets the
\* exception through, lib.emit returns the status "Failure: ..."
FailureReported ==
    IF emitted.via = "emit_py" THEN emitted.raised # "none"
    ELSE emitted.status = "Failure"

\* C6: emitting records calls open() first; when open() raised nothing else is
\* called; when open() succeeded, write() and then close() are called, close()
\* exactly once and last, whether or not write() raised, and a close() that
\* returns leaves the sink with no open handle; a failure of write() or close()
\* is reported after the close.
C6_CloseOnEveryExitPath ==
    emitted.via \in {"emit_py", "emit_lib"} =>
        LET calls == emitted.calls
        IN  /\ calls # <<>> /\ calls[1].m = "open"
            /\ (calls[1].exc # "none" => Len(calls) = 1 /\ FailureReported)
            /\ (calls[1].exc = "none" =>
                  /\ Methods(calls) = <<"open", "write", "close">>
                  /\ (calls[3].exc = "none" => Released(sink))
                  /\ (FailureReported <=>
                        (calls[2].exc # "none" \/ calls[3].exc # "none")))

\* write raised after a successful open, close ran and the failure came out
C6_Witness ==
    /\ emitted.via = "emit_py"
    /\ Methods(emitted.calls) = <<"open", "write", "close">>
    /\ emitted.calls[2].exc # "none"
    /\ emitted.calls[3].exc = "none"
    /\ emitted.raised = emitted.calls[2].exc
    /\ Released(sink)

\* ----------------------------------------------------- claims: SqliteSink
LastCall(m) == emitted.via = "direct" /\ emitted.calls[1].m = m

\* C7: SqliteSink.close() leaves the sink without a connection whether its
\* flush succeeds or fails, giving back the handle it held; when close()
\* returns, nothing is left in the buffer and every buffered row has been
\* executed and committed before the connection was released.
C7_CloseReleasesConnection ==
    /\ (LastCall("close") => sink.conn = "None")
    /\ (LastCall("close") /\ emitted.raised = "none" =>
            sink.pending = <<>> /\ sink.dbRows = sink.txRows)
    /\ \A flt \in FlushFaults :
          LET w1 == SqliteSink_close(sink, flt)
          IN  /\ w1.conn = "None"
              /\ w1.handles = IF sink.conn = "open" THEN sink.handles - 1
                              ELSE sink.handles
              /\ (w1.exc = "none" =>
                    /\ w1.pending = <<>>
                    /\ w1.dbRows = executemany(sink.txRows, sink.pending, sink))

\* close() was called on an open sink with rows in its buffer, the flush
\* failed, and the connection is gone
C7_Witness ==
    /\ LastCall("close")
    /\ emitted.before.open
    /\ emitted.raised = "OperationalError"
    /\ sink.pending # <<>>
    /\ sink.conn = "None"

\* C8: write on a SQLite sink that is not open (never opened, or closed) raises
\* AssertionError with the message 'SQLiteSink not opened', buffers nothing and
\* writes nothing; flush on a sink that is not open raises as well.
C8_WriteBeforeOpenIsFatal ==
    /\ (LastCall("write") /\ ~emitted.before.open =>
            /\ emitted.raised = "AssertionError: SQLiteSink not opened"
            /\ sink.conn = "None"
            /\ \A rows \in SqlBatches :
                  LET w1 == SqliteSink_write(sink, rows, NoFlushFault)
                  IN  /\ w1.pending = sink.pending
                      /\ w1.dbRows = sink.dbRows /\ w1.txRows = sink.txRows)
    /\ (LastCall("_flush") /\ ~emitted.before.open => emitted.raised # "none")

\* the values a row has in the key columns, NULLs included
KeyVals(row, w) ==
    [k \in 1..Len(w.upsert_keys) |-> row[ColIndex(w.columns, w.upsert_keys[k])]]
NullKey(row, w) == NULL \in Range(KeyVals(row, w))
SameKey(r1, r2, w) == ~NullKey(r1, w) /\ KeyVals(r1, w) = KeyVals(r2, w)
Rows(tbl) == 1..Len(tbl)

\* C9 as stated: with upsert keys, the table holds one row per distinct key
\* value of the records written, a missing key (NULL) being one such value.
C9_OneRowPerKeyValue ==
    sink.upsert_keys # <<>> =>
        \A i, j \in Rows(sink.dbRows) :
            KeyVals(sink.dbRows[i], sink) = KeyVals(sink.dbRows[j], sink) => i = j

\* what a successful flush of the buffer P makes of the table T, as D
UpsertStep(T, P, D, w) ==
    \* rows whose key no buffered record has stay as they are, in place
    /\ Len(D) >= Len(T)
    /\ \A i \in Rows(T) :
          (\A n \in Rows(P) : ~SameKey(P[n], T[i], w)) => D[i] = T[i]
    \* a buffered record with a full key has exactly one row
    /\ \A n \in Rows(P) :
          ~NullKey(P[n], w) =>
            LET same == {m \in Rows(P) : SameKey(P[n], P[m], w)}
                first == P[CHOOSE m \in same : \A o \in same : m <= o]
                last == P[CHOOSE m \in same : \A o \in same : m >= o]
                old == {i \in Rows(T) : SameKey(P[n], T[i], w)}
                now == {i \in Rows(D) : SameKey(P[n], D[i], w)}
            IN  /\ Cardinality(now) = 1
                /\ (w.upsert_update.mode = "all" => \A i \in now : D[i] = last)
                /\ (w.upsert_update.mode = "none" =>
                      \A i \in now : D[i] = IF old = {} THEN first
                                            ELSE T[CHOOSE o \in old : TRUE])
    \* a buffered record with a NULL in its key is stored as a row of its own
    /\ Len(D) = Len(T)
                + Cardinality({n \in Rows(P) : NullKey(P[n], w)})
                + Cardinality({KeyVals(P[n], w) : n \in
                     {m \in Rows(P) : /\ ~NullKey(P[m], w)
                                       /\ \A i \in Rows(T) : ~SameKey(P[m], T[i], w)}})

\* C9 (amended): with upsert keys, the table never holds two rows with the
\* same key when all key columns are non-NULL, and every successful flush
\* keeps it so: a flushed record with a full key ends as the one row of that
\* key, which under 'all' equals the last flushed record of that key and under
\* 'none' stays the row already stored (or the first flushed record of that
\* key); rows of other keys are untouched; a record with a NULL key column is
\* added as a separate row.
C9_UpsertOneRowPerFullKey ==
    sink.upsert_keys # <<>> =>
        /\ ~HasDuplicates(sink.dbRows, sink.upsert_keys, sink.columns)
        /\ ~HasDuplicates(sink.txRows, sink.upsert_keys, sink.columns)
        /\ (sink.conn = "open" /\ sink.insert_sql # NoSql /\ sink.pending # <<>> =>
              LET w1 == SqliteSink_flush(sink, "none")
              IN  /\ w1.exc = "none"
                  /\ w1.pending = <<>>
                  /\ w1.txRows = w1.dbRows
                  /\ UpsertStep(sink.txRows, sink.pending, w1.dbRows, sink))
        /\ \A rec \in SqlRecs :
              (sink.conn = "open" /\ sink.insert_sql # NoSql /\ sink.pending = <<>>
                 /\ sink.batch_size = 1) =>
                  LET w1 == SqliteSink_write(sink, <<rec>>, NoFlushFault)
                  IN  /\ w1.exc = "none"
                      /\ UpsertStep(sink.txRows, <<SqlParams(rec, sink.columns)>>,
                                    w1.dbRows, sink)

\* a record was written and flushed onto a stored row of the same key, which
\* now carries the record's values; a row with a NULL key sits beside it
C9_Witness ==
    /\ LastCall("write") /\ emitted.raised = "none" /\ emitted.nrecs = 1
    /\ sink.upsert_keys = <<"id">> /\ sink.upsert_update.mode = "all"
    /\ sink.batch_size = 1
    /\ emitted.before.n = 2
    /\ sink.dbRows = <<<<NULL, "x">>, <<"1", "y">>>>

\* -------------------------------------------------------- claims: CsvSink
\* C10: an append-mode CsvSink.open() that succeeds writes the header line if
\* and only if the file did not exist before it: a new file then holds the
\* header alone, an existing file is left as it was. No append-mode open,
\* write or close changes the lines already in the file or the number of
\* header lines of a file that existed, so such a file holding one header
\* keeps exactly one over any number of cycles.
C10_AppendHeaderOnce ==
    [][(sink.append /\ sink'.append /\ emitted'.via = "direct") =>
          /\ (emitted'.calls[1].m = "open" /\ emitted'.raised = "none" =>
                sink'.fileLines = IF sink.fileExists THEN sink.fileLines
                                  ELSE <<HeaderLine>>)
          /\ Len(sink'.fileLines) >= Len(sink.fileLines)
          /\ SubSeq(sink'.fileLines, 1, Len(sink.fileLines)) = sink.fileLines
          /\ (sink.fileExists =>
                HdrCount(sink'.fileLines) = HdrCount(sink.fileLines))]_vars

\* an append-mode open has just succeeded on a file that already held its
\* header and a record: the file is as it was, with its one header
C10_Witness ==
    /\ LastCall("open") /\ emitted.raised = "none"
    /\ sink.kind = "csv" /\ sink.append
    /\ emitted.before.exists /\ emitted.before.n >= 2
    /\ Len(sink.fileLines) = emitted.before.n
    /\ HdrCount(sink.fileLines) = 1

\* ------------------------------------------------------- claims: validate
Validated == called.fn = "validate" /\ called.done
Returned == called.res.raised = "none"
Has(kind) == \E i \in 1..Len(called.res.errs) : called.res.errs[i].kind = kind
DataRows == Tail(called.data)
NonDecreasing(col) == \A i, j \in 1..Len(col) : i < j => col[i] <= col[j]

\* the sort_by column over the rows that have as many cells as the contract
\* has headers, in table order
ContractColumn ==
    LET k == CHOOSE i \in 1..Len(called.headers) : called.headers[i] = called.sort_by
        ok == SelectSeq(DataRows, LAMBDA r : Len(r) = Len(called.headers))
    IN  [i \in 1..Len(ok) |-> ok[i][k]]

\* C11: for every non-empty table whose header differs from the contract's,
\* validate returns a list that contains a header-mismatch violation, whatever
\* else is wrong with the table.
C11_HeaderMismatchAlwaysReported ==
    (Validated /\ called.data # <<>> /\ called.data[1] # called.headers)
        => (Returned /\ Has("header"))

\* C12: validate produces a row-count violation if and only if row_count is
\* set and the number of data rows differs from it.
C12_RowCountViolationIff ==
    (Validated /\ called.data # <<>> /\ Returned)
        => (Has("row_count") <=>
              (called.row_count # <<>> /\ Len(DataRows) # called.row_count[1]))

\* C13: the data row at 0-based index i gets a shape violation citing line
\* i + 2 if and only if its cell count differs from the length of the
\* contract's headers.
C13_ShapeViolationPerRow ==
    (Validated /\ called.data # <<>> /\ Returned)
        => \A n \in 1..Len(DataRows) :
              (Err("shape", n + 1) \in Range(called.res.errs))
                 <=> (Len(DataRows[n]) # Len(called.headers))

\* C14: validate never raises on a table with a header; with sort_by unset it
\* reports no ordering violation, with sort_by set it reports none if and
\* only if the sort_by column over the shape-valid rows is non-decreasing.
C14_OrderingCheck ==
    (Validated /\ called.data # <<>>)
        => /\ Returned
           /\ IF called.sort_by = NoneVal THEN ~Has("order")
              ELSE ~Has("order") <=> NonDecreasing(ContractColumn)

\* C15: for the table with no line at all validate returns exactly the one
\* violation 'empty CSV', under every contract.
C15_EmptyTableSingleViolation ==
    (Validated /\ called.data = <<>>)
        => called.res = [raised |-> "none", errs |-> <<Err("empty", 0)>>]

\* validate has run on the empty table under a contract with neither sort_by
\* nor row_count
C15_Witness ==
    /\ Validated /\ called.data = <<>>
    /\ called.sort_by = NoneVal /\ called.row_count = <<>>
    /\ called.res.errs = <<Err("empty", 0)>>

\* ----------------------------------------------------- claims: projection
Projected == called.fn = "project" /\ called.step >= 1
Reprojected == called.fn = "project" /\ called.step = 2
TableCols == Range(called.df.columns)
TargetSet == Range(called.target_fields)

\* the cell of record i under field f is the table's cell, or NULL if the
\* table has no such column
CellsCopied ==
    \A i \in 1..Len(called.df_proj.rows) :
        /\ Len(called.df_proj.rows[i]) = Len(called.df_proj.columns)
        /\ \A j \in 1..Len(called.df_proj.columns) :
              LET f == called.df_proj.columns[j]
              IN  called.df_proj.rows[i][j] =
                      IF f \in TableCols
                      THEN called.df.rows[i][IndexOf(called.df.columns, f) + 1]
                      ELSE NULL

\* s lists the members of S once each, in the order of their first
\* occurrence in ref
ListsInOrder(s, S, ref) ==
    /\ Distinct(s)
    /\ Range(s) = S
    /\ \A i, j \in 1..Len(s) : i < j => IndexOf(ref, s[i]) < IndexOf(ref, s[j])

ReportHolds ==
    /\ Range(called.report.kept) \cup Range(called.report.added_empty) = TargetSet
    /\ ListsInOrder(called.report.kept, TargetSet \cap TableCols, called.target_fields)
    /\ ListsInOrder(called.report.added_empty, TargetSet \ TableCols,
                    called.target_fields)
    /\ ListsInOrder(called.report.dropped, TableCols \ TargetSet, called.df.columns)
    /\ Range(called.report.dropped) \cap TargetSet = {}

C17_ProjectionIdempotent == Reprojected => called.again = called.df_proj

\* projected twice: a table with rows, reordered, one column dropped and one
\* field added by the first projection
C17_Witness ==
    /\ Reprojected
    /\ Len(called.df.rows) = MaxRecs
    /\ called.df_proj # called.df
    /\ called.report.added_empty # <<>>
    /\ called.report.dropped # <<>>
    /\ called.again.columns = called.target_fields

\* ------------------------------------------- claims: SqliteSink.__init__
Constructed == called.fn = "SqliteSink" /\ called.done
KeysOutsideColumns == ~(Range(called.upsert_keys) \subseteq Range(called.columns))

\* C18: constructing a SqliteSink whose upsert keys are not all among its
\* columns raises at construction: no sink object exists afterwards, no
\* connection was opened, no statement was built or run, and the database at
\* db_path is what it was (a missing file is still missing).
C18_BadKeysRejectedAtConstruction ==
    (Constructed /\ KeysOutsideColumns) =>
        /\ called.raised = "ValueError"
        /\ sink.kind = "none"
        /\ sink.conn = "None" /\ sink.handles = 0
        /\ sink.insert_sql = NoSql /\ sink.pending = <<>> /\ sink.txRows = <<>>
        /\ Database(sink) = called.db

\* rejected with keys of which one is a column and one is not, no file at
\* db_path before or after
C18_Witness ==
    /\ Constructed /\ KeysOutsideColumns
    /\ Range(called.upsert_keys) \cap Range(called.columns) # {}
    /\ called.raised = "ValueError"
    /\ ~called.db.fileExists /\ ~sink.fileExists

\* ------------------------------------------ claims: configuration errors
\* the contract names a sort column that is not among its headers
ConfigInvalid == sort_by \notin Range(HEADERS) \cup {NoneVal}

\* C19: a run with an invalid contract or sink configuration is rejected
\* before the first generation call: no generation call is ever made by a
\* run whose configuration is invalid.
C19_ConfigErrorBeforeGeneration ==
    (impl \in {"main", "lib"} /\ ConfigInvalid) => genCalls = 0

\* ------------------------------------------------ claims: end-to-end runs
\* the reply is a table whose header lacks a target field
LacksTargetField(reply) ==
    /\ reply # <<>>
    /\ Range(reply[1]) \subseteq Range(HEADERS) /\ Range(reply[1]) # Range(HEADERS)

\* C20: a lib run whose target fields contain a field absent from the
\* generated table succeeds (the absent field is then null in every record
\* and reported in added_empty).
C20_AbsentFieldRunSucceeds ==
    (impl = "lib" /\ replies # <<>> /\ LacksTargetField(replies[1])) =>
        outcome = "Success"

\* -------------------------------------------- claims: cycles on a sink
CycleClosed == called.fn = "cycle" /\ called.phase = "closed" /\ sink.exc = "none"
PlainInsert == sink.kind = "sqlite" /\ sink.upsert_keys = <<>>

\* the rows the log stands for, one per record, in the order written
RowsOf(recs, columns) ==
    [i \in 1..Len(recs) |-> [j \in 1..Len(columns) |-> Get(recs[i], columns[j], NULL)]]

\* C21: after successful open / write* / close cycles on a plain-insert
\* SqliteSink, for every batch size and every split of the records across
\* write calls, the table holds what it held before followed by one row per
\* record written, in the order written: none lost, none duplicated.
C21_PlainInsertKeepsEveryRecordInOrder ==
    (CycleClosed /\ PlainInsert) =>
        /\ sink.dbRows = called.base \o RowsOf(called.written, sink.columns)
        /\ sink.pending = <<>>

\* MaxWritten records written in more than one write call and closed with a
\* batch size that leaves a remainder for close to flush
C21_Witness ==
    /\ CycleClosed /\ PlainInsert
    /\ Len(called.written) = MaxWritten
    /\ sink.batch_size = MaxBatch
    /\ called.written[1] = called.written[2]
    /\ called.written[2] # called.written[3]

\* ------------------------------------------------- claims: corrections
\* the violation list validate returns for the reply of attempt j
ViolationsOf(j) == validate(replies[j], HEADERS, sort_by, row_count).errs

\* C22: the correction appended after failed attempt j carries exactly the
\* violation list of attempt j, in validator order, and the reply of attempt j
\* itself, never those of another attempt.
C22_CorrectionCarriesOwnAttempt ==
    \A j \in 1..attempt :
        /\ Len(messages) >= 2 * j + 2
        /\ ViolationsOf(j) # <<>>
        /\ messages[2 * j + 2] =
               Msg("user", Correction(ViolationsOf(j), replies[j]))

\* two failed attempts with different replies, the second with more than one
\* violation and a list different from the first's
C22_Witness ==
    /\ attempt >= 2
    /\ replies[1] # replies[2]
    /\ Len(ViolationsOf(2)) >= 2
    /\ ViolationsOf(1) # ViolationsOf(2)
    /\ messages[6].content.errors = ViolationsOf(2)

\* ------------------------------------------- claims: order of violations
\* position of a kind of violation in the fixed order of the checks
KindRank(kind) ==
    CASE kind = "header" -> 1 [] kind = "row_count" -> 2
      [] kind = "shape" -> 3 [] kind = "order" -> 4 [] OTHER -> 0

\* the list is in the order header, row count, shapes by ascending line,
\* ordering, each violation once
InFixedOrder(errs) ==
    \A i, j \in 1..Len(errs) :
        i < j => \/ KindRank(errs[i].kind) < KindRank(errs[j].kind)
                 \/ /\ errs[i].kind = "shape" /\ errs[j].kind = "shape"
                    /\ errs[i].line < errs[j].line

\* C23: for every non-empty table validate returns a list and never raises;
\* the list holds the header mismatch whenever the header differs, together
\* with whatever else applies, in the fixed order header, row count, shapes
\* in ascending row order, ordering.
C23_AllViolationsInFixedOrder ==
    (Validated /\ called.data # <<>>) =>
        /\ Returned
        /\ InFixedOrder(called.res.errs)
        /\ (called.data[1] # called.headers => Has("header"))

\* ------------------------------------------ claims: upsert update lists
\* an open SqliteSink with upsert keys and a policy other than "all", nothing
\* buffered
ListedUpsert ==
    /\ called.fn = "cycle" /\ called.phase = "open"
    /\ sink.kind = "sqlite" /\ sink.upsert_keys # <<>>
    /\ sink.upsert_update.mode \in {"list", "none"}
    /\ sink.pending = <<>>

\* L \cap (columns \ K); nothing under the policy "none"
UpdateSet ==
    IF sink.upsert_update.mode = "list"
    THEN Range(sink.upsert_update.cols) \cap
            (Range(sink.columns) \ Range(sink.upsert_keys))
    ELSE {}

\* the row of the table whose key the record r has, 0 if there is none
RowWithKeyOf(r) ==
    LET p == RowsOf(<<r>>, sink.columns)[1]
        hits == {i \in 1..Len(sink.txRows) :
                    \A k \in Range(sink.upsert_keys) :
                        LET c == IndexOf(sink.columns, k) + 1
                        IN  p[c] # NULL /\ p[c] = sink.txRows[i][c]}
    IN  IF hits = {} THEN 0 ELSE CHOOSE i \in hits : TRUE

\* C24: with upsert keys K and an update list L (or the policy "none"),
\* writing a record whose key an existing row has raises nothing, adds no
\* row, sets exactly the columns of L \cap (columns \ K) of that row to the
\* record's values and leaves its other columns and every other row as they
\* were; with that set empty the table is unchanged.
C24_ConflictUpdatesListedColumnsOnly ==
    ListedUpsert =>
        \A r \in CycRecs :
            LET i == RowWithKeyOf(r)
                p == RowsOf(<<r>>, sink.columns)[1]
                w1 == SqliteSink_flush(SqliteSink_write(sink, <<r>>, NoFlushFault),
                                       "none")
            IN  i # 0 =>
                  /\ w1.exc = "none"
                  /\ Len(w1.txRows) = Len(sink.txRows)
                  /\ \A j \in 1..Len(sink.txRows), c \in 1..Len(sink.columns) :
                        w1.txRows[j][c] =
                            IF j = i /\ sink.columns[c] \in UpdateSet
                            THEN p[c] ELSE sink.txRows[j][c]
                  /\ w1.dbRows = w1.txRows
                  /\ (UpdateSet = {} => w1.dbRows = sink.txRows)

\* the list names a only: the row (1, x, x) met the record (1, y, y) and
\* now holds a from the record and b as before
C24_Witness ==
    /\ called.fn = "cycle" /\ sink.kind = "sqlite"
    /\ sink.upsert_update = Policy("list", <<"a">>)
    /\ called.base = <<<<"1", "x", "x">>>>
    /\ called.written = <<[id |-> "1", a |-> "y", b |-> "y"]>>
    /\ sink.dbRows = <<<<"1", "y", "x">>>>

\* ------------------------------------------- claims: quoted identifiers
\* the table name or a column name contains the double quote
BadIdentifier ==
    _qident_raises(called.table) \/ \E k \in Range(called.columns) : _qident_raises(k)

\* C25: a SqliteSink with a double quote in its table name or in a column
\* name is rejected before anything is done to the database: the database is
\* as it was before (no file created, no table dropped, created or indexed)
\* and the sink holds no connection.
C25_QuotedIdentifierRejectedBeforeSql ==
    (Constructed /\ sink.kind = "sqlite" /\ BadIdentifier) =>
        /\ Database(sink) = called.db
        /\ ~sink.indexExists
        /\ sink.conn = "None" /\ sink.handles = 0

\* --------------------------------------------- claims: handles of a sink
\* C26: at every point of any sequence of open / write / close calls the
\* sink has at most one handle that it opened and did not close, and none
\* when it holds no file object (before open, after close).
C26_AtMostOneHandle ==
    sink.kind = "csv" =>
        /\ sink.handles <= 1
        /\ (sink.fh = "None" => sink.handles = 0)

\* ------------------------------------------------ claims: the CSV layout
CsvClosed == CycleClosed /\ sink.kind = "csv"

\* one line per record of the log, in write order, cells in header order
LinesOf(recs, headers) ==
    [i \in 1..Len(recs) |->
        RowLine([j \in 1..Len(headers) |-> Get(recs[i], headers[j], "")])]

\* C27 as stated: on a destination absent or empty before the first open,
\* after any sequence of complete cycles the file is one header line
\* followed by one line per record written since the last truncation.
C27_OneHeaderThenRecords ==
    CsvClosed => sink.fileLines = <<HeaderLine>> \o LinesOf(called.written, sink.headers)

\* C27 amended: the file is one header line followed by one line per record
\* written since the last truncation, in write order, when the destination
\* was absent before the first open or some cycle opened it in truncate
\* mode; a destination that was present and empty and has only been opened
\* in append mode holds the record lines without a header line.
C27_OneHeaderUnlessAppendedToExisting ==
    CsvClosed =>
        sink.fileLines =
            (IF called.existed /\ ~called.emptied THEN <<>> ELSE <<HeaderLine>>)
            \o LinesOf(called.written, sink.headers)

\* two cycles on a destination that was absent, the second in append mode,
\* MaxWritten records in all
C27_Witness ==
    /\ CsvClosed
    /\ ~called.existed /\ called.cycles = 2 /\ sink.append
    /\ Len(called.written) = MaxWritten
    /\ Len(sink.fileLines) = MaxWritten + 1

\* ------------------------------------------ claims: the table at open()
\* open() has returned on the sink constructed
Opened ==
    /\ Constructed /\ sink.kind = "sqlite"
    /\ sink.conn = "open" /\ sink.exc = "none"

Declared(w) == IF w.kind = "csv" THEN w.headers ELSE w.columns

\* what the destination holds once the sink has written and flushed r
Stored(w, r) ==
    IF w.kind = "csv"
    THEN LET w1 == CsvSink_write(w, <<r>>, 0)
         IN  [exc |-> w1.exc, n |-> Len(w1.fileLines) - Len(w.fileLines),
              cells |-> w1.fileLines[Len(w1.fileLines)].cells]
    ELSE LET w1 == SqliteSink_flush(SqliteSink_write(w, <<r>>, NoFlushFault), "none")
         IN  [exc |-> w1.exc, n |-> Len(w1.txRows) - Len(w.txRows),
              cells |-> w1.txRows[Len(w1.txRows)]]

\* C29: a record written to an open sink is stored as one line / row with
\* one cell per declared column, in declared order: the record's value where
\* it has that key, the empty string (CSV) or NULL (SQLite) where it has not;
\* keys that are no declared column leave no trace.
C29_RecordCoercedToDeclaredColumns ==
    (/\ called.fn = "cycle" /\ called.phase = "open"
     /\ sink.kind = "sqlite" => sink.pending = <<>>) =>
        \A r \in CycRecs :
            (sink.kind = "sqlite" /\ sink.upsert_keys # <<>> => RowWithKeyOf(r) = 0) =>
                LET st == Stored(sink, r)
                    cols == Declared(sink)
                IN  /\ st.exc = "none"
                    /\ st.n = 1
                    /\ Len(st.cells) = Len(cols)
                    /\ \A j \in 1..Len(cols) :
                          st.cells[j] =
                              IF cols[j] \in DOMAIN r THEN r[cols[j]]
                              ELSE IF sink.kind = "csv" THEN "" ELSE NULL

\* a CSV file closed after the record without id and b and with the key c
\* was written: its line has empty cells for id and b and nothing of c
C29_Witness ==
    /\ CsvClosed
    /\ called.written = <<[a |-> "x", c |-> "z"]>>
    /\ sink.fileLines[Len(sink.fileLines)] = RowLine(<<"", "x", "">>)

\* --------------------------------------- claims: the sink that is opened
Built == called.fn = "BuildSink" /\ called.done

\* C30: the sink built for the Persisting step is the one the caller's
\* options select, with the options applied: for sink = "sqlite" it has the
\* upsert keys, the update policy and the replace mode given, and once
\* opened with keys it has the unique index and an on-conflict insert.
C30_SinkBuiltAsConfigured ==
    (Built /\ called.sink_kwargs.sink = "sqlite") =>
        /\ sink.kind = "sqlite"
        /\ sink.replace_table = called.sink_kwargs.sqlite_replace
        /\ sink.upsert_keys = called.sink_kwargs.sqlite_upsert_keys
        /\ sink.upsert_keys # <<>> =>
              sink.upsert_update = called.sink_kwargs.sqlite_upsert_update
        /\ (sink.conn = "open" /\ called.sink_kwargs.sqlite_upsert_keys # <<>>) =>
              sink.indexExists /\ sink.insert_sql.kind \in {"update", "nothing"}

\* ------------------------------------------ claims: the buffer of a sink
\* C31: whenever SqliteSink.write returns, fewer than batch_size rows are
\* buffered; a flush that returns leaves the buffer empty.
C31_BufferBelowBatchSize ==
    /\ (LastCall("write") /\ emitted.raised = "none" =>
            Len(sink.pending) < sink.batch_size)
    /\ (LastCall("_flush") /\ emitted.raised = "none" => sink.pending = <<>>)

\* C32: after SqliteSink.close() returns or raises the buffer is empty, so
\* that close() called again changes nothing and raises nothing, and an
\* open() on the closed sink starts with no rows of an earlier span.
C32_CloseEmptiesBuffer ==
    /\ (LastCall("close") => sink.pending = <<>>)
    /\ (LastCall("close") =>
            \A flt \in FlushFaults :
                SqliteSink_close(sink, flt) = [sink EXCEPT !.exc = "none"])
    /\ (LastCall("open") /\ ~emitted.before.open /\ emitted.raised = "none" =>
            sink.pending = <<>>)

====
